---------------------------- MODULE Spec2Model ----------------------------
(***************************************************************************)
(* Model of colour_analysis/visuals/rgb_colourspace.py: the three          *)
(* functions RGB_identity_cube, RGB_colourspace_volume_visual and          *)
(* RGB_colourspace_triangle_visual, the scene graph they attach their      *)
(* visuals to, and the heap of numpy arrays the visuals hold.              *)
(*                                                                         *)
(* Numbers.  A floating point coordinate is a record: a finite number      *)
(* (an integer count of 1/Unit), NaN, +infinity or -infinity.  Colour      *)
(* components and opacities are integers counting tenths (8 is 0.8).       *)
(*                                                                         *)
(* Objects.  A numpy array lives in the heap "arrays" and is held by       *)
(* reference (its index), as Python holds it: MeshData.set_vertices keeps  *)
(* the array it is given, and get_vertices returns the array it keeps.     *)
(***************************************************************************)
EXTENDS Integers, Sequences, FiniteSets, TLC

VARIABLES
    nodes,      \* scene graph: node id -> [kind, parent]; parent 0 is None
    boxes,      \* Box node id -> what the Box was built with and its mesh
    lines,      \* Line node id -> the arguments Line was constructed with
    arrays,     \* heap: array id -> sequence of vertices (numpy array)
    calls       \* history: one record per call made by the caller

vars == <<nodes, boxes, lines, arrays, calls>>

----------------------------------------------------------------------------
(* Bounds of the model. *)

MaxSegments == 2    \* segment counts are drawn from 1..MaxSegments
MaxCalls == 1       \* calls of the two visual functions per behaviour
MaxCubeCalls == 2   \* calls of RGB_identity_cube per behaviour
MaxWrites == 1      \* writes of the caller into a vertex array per behaviour

----------------------------------------------------------------------------
(* Floating point values. *)

\* "v bound to x in F(x)": v is evaluated once, however often F uses x.
Bind(v, F(_)) == CHOOSE r \in {F(x) : x \in {v}} : TRUE

RECURSIVE Factorial(_)
Factorial(n) == IF n <= 1 THEN 1 ELSE n * Factorial(n - 1)

\* 1.0 in model units: every k/s with s in 1..MaxSegments, and 0.5, is whole.
Unit == 2 * Factorial(MaxSegments)
Half == Unit \div 2

Fin(n) == [kind |-> "finite", v |-> n]
NaN == [kind |-> "nan", v |-> 0]
PInf == [kind |-> "+inf", v |-> 0]
NInf == [kind |-> "-inf", v |-> 0]

IsFinite(x) == x.kind = "finite"

\* numpy.isnan
isnan(x) == x.kind = "nan"

\* x + d for a finite d (IEEE: NaN and the infinities absorb it)
AddScalar(x, d) == IF IsFinite(x) THEN Fin(x.v + d) ELSE x

\* a + b (IEEE addition)
Add(a, b) ==
    IF isnan(a) \/ isnan(b) THEN NaN
    ELSE IF IsFinite(a) /\ IsFinite(b) THEN Fin(a.v + b.v)
    ELSE IF IsFinite(a) THEN b
    ELSE IF IsFinite(b) THEN a
    ELSE IF a.kind = b.kind THEN a ELSE NaN

\* k * x for an integer k (IEEE: 0 * inf is NaN)
Scale(k, x) ==
    IF isnan(x) THEN NaN
    ELSE IF IsFinite(x) THEN Fin(k * x.v)
    ELSE IF k = 0 THEN NaN
    ELSE IF k > 0 THEN x
    ELSE IF x.kind = "+inf" THEN NInf ELSE PInf


----------------------------------------------------------------------------
(* Python values passed as arguments. *)

\* A colour argument: None, or an array_like of components (in tenths) held
\* in a tuple, a list or a numpy.ndarray.
NoColour == [type |-> "None", rgb |-> <<>>]
Colour(type, rgb) == [type |-> type, rgb |-> rgb]

\* bool(x) of a colour argument, as "not x" evaluates it: None is false, a
\* tuple or list is true when it is not empty, an ndarray of one element has
\* its element's truth, and an ndarray of several elements raises ValueError
\* ("the truth value of an array with more than one element is ambiguous").
Truth(x) ==
    IF x.type = "None" THEN "False"
    ELSE IF x.type \in {"tuple", "list"}
        THEN (IF Len(x.rgb) > 0 THEN "True" ELSE "False")
    ELSE IF Len(x.rgb) = 0 THEN "False"
    ELSE IF Len(x.rgb) = 1 THEN (IF x.rgb[1] # 0 THEN "True" ELSE "False")
    ELSE "ValueError"

\* The planes argument: None, or a collection of plane names.
AllPlanes == {"-z", "+z", "-y", "+y", "-x", "+x"}
PlanesNone == [none |-> TRUE, set |-> {}]
Planes(S) == [none |-> FALSE, set |-> S]

\* vertex_colours as RGB_identity_cube hands it to Box: None or an array.
NoVertexColours == [none |-> TRUE, rgba |-> <<>>]

----------------------------------------------------------------------------
(* vispy.geometry.generation.create_box with width = height = depth = 1:   *)
(* one grid of vertices per plane, the box centred on the origin.          *)

PlaneOrder == <<"-z", "+z", "-y", "+y", "-x", "+x">>
PlaneAxis(p) == IF p \in {"-x", "+x"} THEN 1 ELSE IF p \in {"-y", "+y"} THEN 2 ELSE 3
PlaneSign(p) == IF p \in {"+x", "+y", "+z"} THEN 1 ELSE -1
OtherAxes(a) == IF a = 1 THEN <<2, 3>> ELSE IF a = 2 THEN <<1, 3>> ELSE <<1, 2>>

\* segment counts by axis: x is the width, y the depth, z the height
AxisSegments(ws, hs, ds) == <<ws, ds, hs>>

PlaneVertexCount(p, seg) ==
    LET o == OtherAxes(PlaneAxis(p))
    IN  (seg[o[1]] + 1) * (seg[o[2]] + 1)

PlaneFaceCount(p, seg) ==
    LET o == OtherAxes(PlaneAxis(p))
    IN  2 * seg[o[1]] * seg[o[2]]

\* the n-th vertex of plane p, as three finite coordinates
PlaneVertex(p, seg, n) ==
    LET a == PlaneAxis(p)
        o == OtherAxes(a)
        i == (n - 1) % (seg[o[1]] + 1)
        j == (n - 1) \div (seg[o[1]] + 1)
        at(c) == IF c = a THEN PlaneSign(p) * Half
                 ELSE IF c = o[1] THEN i * (Unit \div seg[o[1]]) - Half
                 ELSE j * (Unit \div seg[o[2]]) - Half
    IN  <<at(1), at(2), at(3)>>

\* the m-th triangle of plane p, its vertex indices (0-based) shifted by off
PlaneFace(p, seg, m, off) ==
    LET o == OtherAxes(PlaneAxis(p))
        s1 == seg[o[1]]
        cell == (m - 1) \div 2
        i == cell % s1
        j == cell \div s1
        a == off + j * (s1 + 1) + i
        d == a + s1 + 1
    IN  IF (m - 1) % 2 = 0 THEN <<a, a + 1, d + 1>> ELSE <<a, d + 1, d>>

UsedPlanes(planes) == IF planes.none THEN AllPlanes ELSE planes.set

RECURSIVE BoxPositions(_, _, _)
BoxPositions(k, used, seg) ==
    IF k > Len(PlaneOrder) THEN <<>>
    ELSE (IF PlaneOrder[k] \in used
            THEN [n \in 1..PlaneVertexCount(PlaneOrder[k], seg) |->
                    PlaneVertex(PlaneOrder[k], seg, n)]
            ELSE <<>>)
         \o BoxPositions(k + 1, used, seg)

RECURSIVE BoxFaces(_, _, _, _)
BoxFaces(k, used, seg, off) ==
    IF k > Len(PlaneOrder) THEN <<>>
    ELSE IF PlaneOrder[k] \in used
        THEN [m \in 1..PlaneFaceCount(PlaneOrder[k], seg) |->
                PlaneFace(PlaneOrder[k], seg, m, off)]
             \o BoxFaces(k + 1, used, seg, off + PlaneVertexCount(PlaneOrder[k], seg))
        ELSE BoxFaces(k + 1, used, seg, off)

\* create_box: positions in [-0.5, 0.5], the 'color' field (the position
\* moved into [0, 1], alpha 1) and the faces.
create_box(ws, hs, ds, planes) ==
    Bind(BoxPositions(1, UsedPlanes(planes), AxisSegments(ws, hs, ds)), LAMBDA pos :
        [position |-> pos,
         color |-> [n \in 1..Len(pos) |->
                      <<pos[n][1] + Half, pos[n][2] + Half, pos[n][3] + Half, Unit>>],
         faces |-> BoxFaces(1, UsedPlanes(planes), AxisSegments(ws, hs, ds), 0)])

----------------------------------------------------------------------------
(* The scene graph and the heap. *)

\* a world: the four program variables as one value
World(n, b, l, a) == [nodes |-> n, boxes |-> b, lines |-> l, arrays |-> a]

Root == 1       \* the caller's node, the parent the caller may pass
None == 0       \* Python's None where a node is expected

\* vispy Node(parent): a new node, attached to parent unless parent is None
NewNode(W, kind, parent) ==
    [W EXCEPT !.nodes = Append(@, [kind |-> kind, parent |-> parent])]

Children(ns, p) == {i \in 1..Len(ns) : ns[i].parent = p}

\* numpy array construction: a new array in the heap
NewArray(W, a) == Bind(a \o <<>>, LAMBDA b : [W EXCEPT !.arrays = Append(@, b)])

\* colour_analysis.visuals.Box: a scene node (its parent comes with the
\* keyword arguments) holding a mesh of the unit, origin-centred box with
\* the given segments and planes, and the colours it was given.
BoxMesh(ws, hs, ds, planes) ==
    Bind(create_box(ws, hs, ds, planes), LAMBDA g :
        [vertices |-> [n \in 1..Len(g.position) |->
                         <<Fin(g.position[n][1]), Fin(g.position[n][2]), Fin(g.position[n][3])>>],
         faces |-> g.faces])

Box(W, ws, hs, ds, planes, uniform_colour, uniform_opacity, vertex_colours, wireframe, parent) ==
    Bind(BoxMesh(ws, hs, ds, planes), LAMBDA mesh :
    Bind(NewArray(NewNode(W, "Box", parent), mesh.vertices), LAMBDA W1 :
        [W1 EXCEPT !.boxes = @ @@ (Len(W1.nodes) :> [
            vertices |-> Len(W1.arrays),
            faces |-> mesh.faces,
            vertex_colours |-> vertex_colours,
            uniform_colour |-> uniform_colour,
            uniform_opacity |-> uniform_opacity,
            wireframe |-> wireframe])]))

\* mesh_data.get_vertices(): the array the mesh holds (not a copy)
get_vertices(W, box) == W.boxes[box].vertices

\* mesh_data.set_vertices(a): the mesh holds array a from now on
set_vertices(W, box, a) == [W EXCEPT !.boxes[box].vertices = a]

\* (mutant) the translation reaches every array of the heap, as it would
\* if the Boxes shared one mesh
TranslateEveryArray(W, a, d) ==
    [W EXCEPT !.arrays =
        [k \in 1..Len(@) |->
            [n \in 1..Len(@[k]) |-> <<AddScalar(@[k][n][1], d), AddScalar(@[k][n][2], d), AddScalar(@[k][n][3], d)>>]]]

\* vertices += d: in place, every coordinate of array a
TranslateInPlace(W, a, d) ==
    [W EXCEPT !.arrays[a] =
        [n \in 1..Len(@) |-> <<AddScalar(@[n][1], d), AddScalar(@[n][2], d), AddScalar(@[n][3], d)>>]]

\* The vertex positions a Box shows.
Positions(W, box) == W.arrays[W.boxes[box].vertices]

----------------------------------------------------------------------------
(* RGB_identity_cube *)

RGB_identity_cube(W, ws, hs, ds, planes, uniform_colour, uniform_opacity, vertex_colours, wireframe, parent) ==
    Bind(create_box(ws, hs, ds, planes), LAMBDA g :
    Bind(IF vertex_colours THEN [none |-> FALSE, rgba |-> g.color] ELSE NoVertexColours, LAMBDA vc :
    Bind(Box(W, ws, hs, ds, planes, uniform_colour, uniform_opacity, vc, wireframe, parent), LAMBDA W1 :
        LET RGB_box == Len(W1.nodes)
            vertices == get_vertices(W1, RGB_box)
        IN  Bind(TranslateInPlace(W1, vertices, Half), LAMBDA W2 :
                [W |-> set_vertices(W2, RGB_box, vertices), ret |-> RGB_box]))))

----------------------------------------------------------------------------
(* The colour library: colourspaces, diagrams, transforms. *)

\* colour.RGB_COLOURSPACES as get_RGB_colourspace reads it.  The matrix
\* entries are tenths, so RGB_to_XYZ yields tenths of a model unit.
RGB_COLOURSPACES ==
    [name \in {"Rec. 709"} |->
        [RGB_to_XYZ_matrix |-> <<<<4, 4, 2>>, <<2, 7, 1>>, <<0, 1, 9>>>>]]

\* get_RGB_colourspace raises KeyError for a name that is not a colourspace.
IsColourspace(name) == name \in DOMAIN RGB_COLOURSPACES

\* CHROMATICITY_DIAGRAM_TRANSFORMATIONS[diagram] raises KeyError likewise.
CHROMATICITY_DIAGRAMS == {"CIE 1931", "CIE 1960 UCS", "CIE 1976 UCS"}

\* (mutant) the diagram is never looked up
IsDiagram_Any(name) == name = name

IsDiagram(name) == name \in CHROMATICITY_DIAGRAMS

\* colour.RGB_to_XYZ with equal whitepoints: the matrix times each vertex,
\* a new array.
Dot(row, v) == Add(Add(Scale(row[1], v[1]), Scale(row[2], v[2])), Scale(row[3], v[3]))

RGB_to_XYZ(a, M) == [n \in 1..Len(a) |-> <<Dot(M[1], a[n]), Dot(M[2], a[n]), Dot(M[3], a[n])>>]

\* XYZ_to_reference_colourspace, coordinate by coordinate.  The reference
\* transforms are singular where a coordinate vanishes (0/0 or x/0 in the
\* library): there the result is "singular", one of a finite number, NaN,
\* +infinity and -infinity, as the library and the reference colourspace
\* make it; elsewhere it is finite.
ReferenceCoordinate(x, singular) ==
    IF ~IsFinite(x) THEN x
    ELSE IF x.v = 0 THEN singular
    ELSE Fin(x.v + Unit)

XYZ_to_reference_colourspace(XYZ, singular) ==
    [n \in 1..Len(XYZ) |-> <<ReferenceCoordinate(XYZ[n][1], singular),
                              ReferenceCoordinate(XYZ[n][2], singular),
                              ReferenceCoordinate(XYZ[n][3], singular)>>]

\* (mutant) value[~np.isfinite(value)] = 0
ZeroNonFinite(a) ==
    [n \in 1..Len(a) |-> [c \in 1..Len(a[n]) |-> IF IsFinite(a[n][c]) THEN a[n][c] ELSE Fin(0)]]

\* value[np.isnan(value)] = 0 on one array value
ZeroNaN(a) ==
    [n \in 1..Len(a) |-> [c \in 1..Len(a[n]) |-> IF isnan(a[n][c]) THEN Fin(0) ELSE a[n][c]]]

\* the same, in place on array a of the heap
ZeroNaNInPlace(W, a) == [W EXCEPT !.arrays[a] = ZeroNaN(@)]

----------------------------------------------------------------------------
(* RGB_colourspace_volume_visual *)

\* What a call hands back: the world it leaves, how it ended ("returned" or
\* the exception that propagates) and the value returned.
Result(W, outcome, ret) == [W |-> W, outcome |-> outcome, ret |-> ret]

\* (mutant) the reference transform applied to the RGB vertices themselves
ConvertVertices_NoXYZ(W, box, M, singular) ==
    Bind(NewArray(W, XYZ_to_reference_colourspace(W.arrays[get_vertices(W, box)], singular)), LAMBDA W1 :
        LET value == Len(W1.arrays)
        IN  set_vertices(ZeroNaNInPlace(W1, value), box, value))

\* lines 174-185: the fill cube's vertices converted, sanitised and stored
ConvertVertices(W, box, M, singular) ==
    Bind(RGB_to_XYZ(W.arrays[get_vertices(W, box)], M), LAMBDA XYZ :
    Bind(NewArray(W, XYZ_to_reference_colourspace(XYZ, singular)), LAMBDA W1 :
        LET value == Len(W1.arrays)
        IN  set_vertices(ZeroNaNInPlace(W1, value), box, value)))

\* (mutant) the wireframe cube built without parent=node
WireframeCube_NoParent(W, node, fill, segments, wireframe_colour, wireframe_opacity) ==
    LET t == Truth(wireframe_colour)
    IN  IF t = "ValueError" THEN Result(W, "ValueError", None)
        ELSE Bind(RGB_identity_cube(W, segments, segments, segments, PlanesNone, wireframe_colour, wireframe_opacity, t = "False", TRUE, None), LAMBDA c :
                Result(set_vertices(c.W, c.ret, get_vertices(c.W, fill)), "returned", node))

\* lines 187-197: the wireframe cube, given the fill cube's array
WireframeCube(W, node, fill, segments, wireframe_colour, wireframe_opacity) ==
    LET t == Truth(wireframe_colour)
    IN  IF t = "ValueError" THEN Result(W, "ValueError", None)
        ELSE Bind(RGB_identity_cube(W, segments, segments, segments, PlanesNone, wireframe_colour, wireframe_opacity, t = "False", TRUE, node), LAMBDA c :
                Result(set_vertices(c.W, c.ret, get_vertices(c.W, fill)), "returned", node))

RGB_colourspace_volume_visual(W, colourspace, singular, segments, uniform_colour, uniform_opacity, wireframe, wireframe_colour, wireframe_opacity, parent) ==
    LET W0 == NewNode(W, "Node", parent)
        node == Len(W0.nodes)
        t == Truth(uniform_colour)
    IN  IF ~IsColourspace(colourspace) THEN Result(W0, "KeyError", None)
        ELSE IF t = "ValueError" THEN Result(W0, "ValueError", None)
        ELSE Bind(RGB_identity_cube(W0, segments, segments, segments, PlanesNone, uniform_colour, uniform_opacity, t = "False", FALSE, node), LAMBDA RGB_cube_f :
             Bind(ConvertVertices(RGB_cube_f.W, RGB_cube_f.ret, RGB_COLOURSPACES[colourspace].RGB_to_XYZ_matrix, singular), LAMBDA W1 :
                IF wireframe
                    THEN WireframeCube(W1, node, RGB_cube_f.ret, segments, wireframe_colour, wireframe_opacity)
                    ELSE Result(W1, "returned", node)))

----------------------------------------------------------------------------
(* RGB_colourspace_triangle_visual *)

DefaultColour == Colour("tuple", <<8, 8, 8>>)     \* (0.8, 0.8, 0.8)

\* (mutant) the primaries as they are, the triangle left open
CloseTriangle_Open(ij) == ij

\* np.vstack((ij[-1, ...], ij, ij[0, ...]))
CloseTriangle(ij) == <<ij[Len(ij)]>> \o ij \o <<ij[1]>>

\* (mutant) the opacity first
hstack_OpacityFirst(colour, opacity) == <<opacity>> \o colour.rgb

\* np.hstack((uniform_colour, uniform_opacity)): one row of four numbers
hstack(colour, opacity) == colour.rgb \o <<opacity>>

\* vispy Line(pos, color, width, method, parent): a scene node
Line(W, pos, color, width, method, parent) ==
    Bind(NewNode(W, "Line", parent), LAMBDA W1 :
        [W1 EXCEPT !.lines = @ @@ (Len(W1.nodes) :>
            [pos |-> pos, color |-> color, width |-> width, method |-> method])])

\* ij0 is what XYZ_to_ij(xy_to_XYZ(colourspace.primaries), illuminant) yields.
RGB_colourspace_triangle_visual(W, colourspace, diagram, ij0, uniform_colour, uniform_opacity, width, parent) ==
    LET colour == IF uniform_colour.type = "None" THEN DefaultColour ELSE uniform_colour
        ij == ZeroNaN(CloseTriangle(ij0))
        RGB == <<hstack(colour, uniform_opacity)>>
    IN  IF ~IsColourspace(colourspace) \/ ~IsDiagram(diagram) THEN Result(W, "KeyError", None)
        ELSE Bind(Line(W, ij, RGB, width, "agg", parent), LAMBDA W1 :
                Result(W1, "returned", Len(W1.nodes)))

----------------------------------------------------------------------------
(* The caller: it owns the node Root, calls the three functions with        *)
(* arguments of its choice and may write into the vertex array of a Box it  *)
(* was given.  Every call is recorded in "calls".                           *)

Init ==
    /\ nodes = <<[kind |-> "Root", parent |-> None]>>
    /\ boxes = <<>>
    /\ lines = <<>>
    /\ arrays = <<>>
    /\ calls = <<>>

Here == World(nodes, boxes, lines, arrays)

Becomes(W) ==
    /\ nodes' = W.nodes
    /\ boxes' = W.boxes
    /\ lines' = W.lines
    /\ arrays' = W.arrays

Count(fns) == Cardinality({i \in 1..Len(calls) : calls[i].fn \in fns})

VisualFunctions == {"RGB_colourspace_volume_visual", "RGB_colourspace_triangle_visual"}

\* the arguments the caller draws from
Black == <<0, 0, 0>>
Grey == <<5, 5, 5>>
SegmentChoices == 1..MaxSegments
PlaneChoices == {PlanesNone, Planes({"+z"})}
ParentChoices == {None, Root}
SingularChoices == {Fin(Half), NaN, PInf, NInf}

\* uniform_colour, wireframe and wireframe_colour of a volume visual
Colours(uniform_colour, wireframe, wireframe_colour) ==
    [uniform_colour |-> uniform_colour, wireframe |-> wireframe, wireframe_colour |-> wireframe_colour]

DefaultColours == Colours(NoColour, TRUE, NoColour)

VolumeColourChoices ==
    {DefaultColours,
     Colours(NoColour, FALSE, NoColour),
     Colours(NoColour, TRUE, Colour("ndarray", Grey)),
     Colours(Colour("tuple", Black), TRUE, Colour("list", Grey)),
     Colours(Colour("ndarray", Black), TRUE, NoColour)}

\* calls that vary the transform, calls that vary the colours, and calls
\* with a colourspace name that is no colourspace
VolumeArguments ==
    [colourspace : {"Rec. 709"}, singular : SingularChoices, segments : SegmentChoices,
     colours : {DefaultColours}, parent : ParentChoices]
    \cup
    [colourspace : {"Rec. 709"}, singular : {NaN}, segments : SegmentChoices,
     colours : VolumeColourChoices, parent : ParentChoices]
    \cup
    [colourspace : {"Rec. 907"}, singular : {NaN}, segments : {1},
     colours : {DefaultColours}, parent : ParentChoices]

\* what the diagram transform may yield for the three primaries
PrimaryChoices ==
    {<<p1, p2, p3>> :
        p1 \in {<<Fin(6), Fin(3)>>, <<NaN, Fin(3)>>},
        p2 \in {<<Fin(3), Fin(6)>>, <<PInf, NInf>>},
        p3 \in {<<Fin(2), Fin(1)>>, <<NaN, NaN>>}}

TriangleArguments ==
    [colourspace : {"Rec. 709"}, diagram : {"CIE 1931"}, ij : PrimaryChoices,
     uniform_colour : {NoColour, Colour("tuple", Black), Colour("ndarray", Grey)},
     uniform_opacity : {10}, parent : ParentChoices]
    \cup
    [colourspace : {"Rec. 709"}, diagram : {"CIE 1931"}, ij : PrimaryChoices,
     uniform_colour : {NoColour}, uniform_opacity : {5}, parent : ParentChoices]
    \cup
    [colourspace : {"Rec. 709", "Rec. 907"}, diagram : {"CIE 1931", "CIE 1913"},
     ij : {<<<<Fin(6), Fin(3)>>, <<Fin(3), Fin(6)>>, <<Fin(2), Fin(1)>>>>},
     uniform_colour : {NoColour}, uniform_opacity : {10}, parent : {Root}]

\* the nodes call i created
Created(i) == calls[i].first..calls[i].last

\* A call of RGB_identity_cube, while fewer than max were made.
IdentityCubeCalls(max) ==
    /\ Count({"RGB_identity_cube"}) < max
    /\ \E segments \in SegmentChoices, planes \in PlaneChoices,
          vertex_colours \in BOOLEAN, parent \in ParentChoices :
        \E r \in {RGB_identity_cube(Here, segments, segments, segments, planes, NoColour, 10, vertex_colours, FALSE, parent)} :
            /\ Becomes(r.W)
            /\ calls' = Append(calls, [fn |-> "RGB_identity_cube",
                    segments |-> segments, planes |-> planes,
                    vertex_colours |-> vertex_colours, parent |-> parent,
                    outcome |-> "returned", ret |-> r.ret,
                    first |-> Len(nodes) + 1, last |-> Len(r.W.nodes)])

CallIdentityCube == IdentityCubeCalls(MaxCubeCalls)

\* A call of RGB_colourspace_volume_visual.
CallVolumeVisual ==
    /\ Count(VisualFunctions) < MaxCalls
    /\ \E a \in VolumeArguments :
        \E r \in {RGB_colourspace_volume_visual(Here, a.colourspace, a.singular, a.segments, a.colours.uniform_colour, 5, a.colours.wireframe, a.colours.wireframe_colour, 10, a.parent)} :
            /\ Becomes(r.W)
            /\ calls' = Append(calls, [fn |-> "RGB_colourspace_volume_visual",
                    args |-> a, outcome |-> r.outcome, ret |-> r.ret,
                    first |-> Len(nodes) + 1, last |-> Len(r.W.nodes)])

\* A call of RGB_colourspace_triangle_visual.
CallTriangleVisual ==
    /\ Count(VisualFunctions) < MaxCalls
    /\ \E a \in TriangleArguments :
        \E r \in {RGB_colourspace_triangle_visual(Here, a.colourspace, a.diagram, a.ij, a.uniform_colour, a.uniform_opacity, 4, a.parent)} :
            /\ Becomes(r.W)
            /\ calls' = Append(calls, [fn |-> "RGB_colourspace_triangle_visual",
                    args |-> a, outcome |-> r.outcome, ret |-> r.ret,
                    first |-> Len(nodes) + 1, last |-> Len(r.W.nodes)])

\* The caller writes into the vertex array a Box holds, in place:
\* box.mesh_data.get_vertices()[0] = (-1, -1, -1).
WriteVertices ==
    /\ Count({"write"}) < MaxWrites
    /\ \E b \in DOMAIN boxes :
        /\ arrays' = [arrays EXCEPT ![get_vertices(Here, b)][1] = <<Fin(-Unit), Fin(-Unit), Fin(-Unit)>>]
        /\ calls' = Append(calls, [fn |-> "write", box |-> b])
        /\ UNCHANGED <<nodes, boxes, lines>>

\* the two visual functions on one scene
Next == CallVolumeVisual \/ CallTriangleVisual

Spec == Init /\ [][Next]_vars

\* repeated calls of RGB_identity_cube on one scene
NextCube == CallIdentityCube

SpecCube == Init /\ [][NextCube]_vars

\* cubes and volume visuals whose vertex arrays the caller then writes into
NextWrite == IdentityCubeCalls(1) \/ CallVolumeVisual \/ WriteVertices

SpecWrite == Init /\ [][NextWrite]_vars

----------------------------------------------------------------------------
(* What the claims speak of. *)

VolumeCalls == {i \in 1..Len(calls) : calls[i].fn = "RGB_colourspace_volume_visual"}
TriangleCalls == {i \in 1..Len(calls) : calls[i].fn = "RGB_colourspace_triangle_visual"}
CubeCalls == {i \in 1..Len(calls) : calls[i].fn = "RGB_identity_cube"}
Returned(i) == calls[i].outcome = "returned"

\* the Boxes and Lines call i constructed
BoxesOf(i) == {n \in Created(i) : nodes[n].kind = "Box"}
LinesOf(i) == {n \in Created(i) : nodes[n].kind = "Line"}

\* the vertex positions Box b holds now
Stored(b) == arrays[boxes[b].vertices]

\* the names the libraries know
KnownColourspace(i) == calls[i].args.colourspace \in DOMAIN RGB_COLOURSPACES
KnownDiagram(i) == calls[i].args.diagram \in CHROMATICITY_DIAGRAMS

\* NaN replaced by 0, every other coordinate kept
NaNToZero(x) == IF x.kind = "nan" THEN Fin(0) ELSE x

\* the vertices of the identity cube: the Box's mesh moved by +0.5
IdentityCube(segments) ==
    LET mesh == BoxMesh(segments, segments, segments, PlanesNone).vertices
    IN  [n \in 1..Len(mesh) |-> [c \in 1..3 |-> Fin(mesh[n][c].v + Half)]]

\* the identity cube of every segment count a caller may pass
IdentityCubes == [segments \in SegmentChoices |-> IdentityCube(segments)]

\* what the colour transform of volume call i yields for cube vertex v
Transformed(i, v) ==
    LET M == RGB_COLOURSPACES[calls[i].args.colourspace].RGB_to_XYZ_matrix
    IN  [c \in 1..3 |-> ReferenceCoordinate(Dot(M[c], v), calls[i].args.singular)]

----------------------------------------------------------------------------
(* C1: a volume visual that returns hands back a Node attached to the given *)
(* parent, with exactly two Box children when wireframe is true and exactly *)
(* one when it is false; every Box the call created is a child of that Node *)
(* and of no other node.                                                    *)
C1_VolumeNodeChildren ==
    \A i \in VolumeCalls : Returned(i) =>
        LET node == calls[i].ret
        IN  /\ node \in Created(i)
            /\ nodes[node].kind = "Node"
            /\ nodes[node].parent = calls[i].args.parent
            /\ Children(nodes, node) = BoxesOf(i)
            /\ Cardinality(BoxesOf(i)) = IF calls[i].args.colours.wireframe THEN 2 ELSE 1
            /\ \A b \in BoxesOf(i) : \A p \in 0..Len(nodes) : b \in Children(nodes, p) => p = node

C1_Witness ==
    \E i \in VolumeCalls :
        /\ Returned(i)
        /\ calls[i].args.colours.wireframe
        /\ calls[i].args.parent = Root
        /\ Cardinality(Children(nodes, calls[i].ret)) = 2

(* C3: the points a triangle visual passes to Line close the triangle of   *)
(* the three transformed primaries: each edge p1-p2, p2-p3, p3-p1 is a pair *)
(* of consecutive points, and every point is one of the primaries.          *)
PassedPrimaries(i) == [k \in 1..3 |-> [c \in 1..2 |-> NaNToZero(calls[i].args.ij[k][c])]]

IsEdge(seq, a, b) == \E k \in 1..(Len(seq) - 1) : {seq[k], seq[k + 1]} = {a, b}

C3_ClosedTriangle ==
    \A i \in TriangleCalls : Returned(i) =>
        LET pos == lines[calls[i].ret].pos
            P == PassedPrimaries(i)
        IN  /\ IsEdge(pos, P[1], P[2])
            /\ IsEdge(pos, P[2], P[3])
            /\ IsEdge(pos, P[3], P[1])
            /\ \A k \in 1..Len(pos) : pos[k] \in {P[1], P[2], P[3]}

C3_Witness ==
    \E i \in TriangleCalls :
        /\ Returned(i)
        /\ Cardinality({PassedPrimaries(i)[k] : k \in 1..3}) = 3
        /\ Len(lines[calls[i].ret].pos) = 5

(* C4: a colourspace name that is no colourspace (either visual) and a     *)
(* diagram name that is no diagram (triangle visual) end the call with the *)
(* lookup's KeyError: nothing is returned and the call constructs no Box   *)
(* and no Line.                                                            *)
InvalidName(i) ==
    \/ ~KnownColourspace(i)
    \/ i \in TriangleCalls /\ ~KnownDiagram(i)

C4_LookupFailurePropagates ==
    \A i \in VolumeCalls \cup TriangleCalls : InvalidName(i) =>
        /\ calls[i].outcome = "KeyError"
        /\ calls[i].ret = None
        /\ BoxesOf(i) = {}
        /\ LinesOf(i) = {}

C4_Witness ==
    \E i \in TriangleCalls :
        /\ KnownColourspace(i)
        /\ ~KnownDiagram(i)
        /\ calls[i].outcome = "KeyError"

C2_AllStoredFinite ==
    /\ \A i \in VolumeCalls : \A b \in BoxesOf(i) :
        \A n \in 1..Len(Stored(b)) : \A c \in 1..3 : Stored(b)[n][c].kind = "finite"
    /\ \A i \in TriangleCalls : \A l \in LinesOf(i) :
        \A n \in 1..Len(lines[l].pos) : \A c \in 1..2 : lines[l].pos[n][c].kind = "finite"

(* C2, amended: of the colour transform's result only the NaN coordinates  *)
(* are mapped to zero; a finite coordinate and an infinite one (+infinity, *)
(* -infinity) are stored, or passed to Line, unchanged.                    *)
TrianglePoints(i) ==
    <<calls[i].args.ij[3], calls[i].args.ij[1], calls[i].args.ij[2],
      calls[i].args.ij[3], calls[i].args.ij[1]>>

C2_OnlyNaNZeroed ==
    /\ \A i \in VolumeCalls :
        LET cube == IdentityCubes[calls[i].args.segments]
        IN  \A b \in BoxesOf(i) :
                /\ Len(Stored(b)) = Len(cube)
                /\ \A n \in 1..Len(cube) :
                    LET t == Transformed(i, cube[n])
                    IN  \A c \in 1..3 :
                            Stored(b)[n][c] = IF t[c].kind = "nan" THEN Fin(0) ELSE t[c]
    /\ \A i \in TriangleCalls : \A l \in LinesOf(i) :
        /\ Len(lines[l].pos) = 5
        /\ \A n \in 1..5 : \A c \in 1..2 :
            lines[l].pos[n][c] = NaNToZero(TrianglePoints(i)[n][c])

C2_Witness ==
    \E i \in VolumeCalls : \E b \in BoxesOf(i) : \E n \in 1..Len(Stored(b)) :
        /\ Transformed(i, IdentityCubes[calls[i].args.segments][n])[1].kind = "nan"
        /\ Stored(b)[n][1] = Fin(0)
        /\ Stored(b)[n][2].kind = "finite"

(* C7: in a volume visual that returns, every Box holds the identity       *)
(* cube's vertices converted RGB to XYZ and then XYZ to the reference      *)
(* colourspace (NaN stored as 0), vertex by vertex, in the same order and  *)
(* number; the fill and the wireframe Box hold identical positions; faces  *)
(* and per-vertex colours are those RGB_identity_cube built.               *)
BuiltBoxes == [segments \in SegmentChoices |-> create_box(segments, segments, segments, PlanesNone)]

BuiltColours(i, b) ==
    LET s == calls[i].args.segments
        given == IF boxes[b].wireframe THEN calls[i].args.colours.wireframe_colour
                 ELSE calls[i].args.colours.uniform_colour
    IN  IF given.type = "None"
            THEN [none |-> FALSE, rgba |-> BuiltBoxes[s].color]
            ELSE NoVertexColours

C7_ConvertedVertices ==
    \A i \in VolumeCalls : Returned(i) =>
        LET s == calls[i].args.segments
            cube == IdentityCubes[s]
            converted == [n \in 1..Len(cube) |->
                            LET t == Transformed(i, cube[n])
                            IN  <<NaNToZero(t[1]), NaNToZero(t[2]), NaNToZero(t[3])>>]
        IN  \A b \in BoxesOf(i) :
                /\ Stored(b) = converted
                /\ \A b2 \in BoxesOf(i) : Stored(b2) = Stored(b)
                /\ boxes[b].faces = BuiltBoxes[s].faces
                /\ boxes[b].vertex_colours = BuiltColours(i, b)

C7_Witness ==
    \E i \in VolumeCalls :
        /\ Returned(i)
        /\ calls[i].args.segments = 2
        /\ Cardinality(BoxesOf(i)) = 2
        /\ \E b \in BoxesOf(i) : Cardinality({Stored(b)[n] : n \in 1..Len(Stored(b))}) > 8

(* C6: RGB_identity_cube returns a Box whose vertices are those of the     *)
(* Box's unit, origin-centred mesh moved by exactly +0.5 on each axis,     *)
(* once however many cubes are made, so every coordinate lies in [0, 1].   *)
C6_UnitCube ==
    \A i \in CubeCalls :
        LET s == calls[i].segments
            mesh == BoxMesh(s, s, s, calls[i].planes).vertices
            pos == Stored(calls[i].ret)
        IN  /\ Returned(i)
            /\ Len(pos) = Len(mesh)
            /\ \A n \in 1..Len(pos) : \A c \in 1..3 :
                /\ pos[n][c] = Fin(mesh[n][c].v + Half)
                /\ pos[n][c].v \in 0..Unit

C6_Witness ==
    /\ Cardinality(CubeCalls) >= 2
    /\ \A i \in CubeCalls : \E n \in 1..Len(Stored(calls[i].ret)) :
        Stored(calls[i].ret)[n] = <<Fin(Unit), Fin(Half), Fin(Unit)>>

(* C5: no mutable state is shared between the visuals: when the caller     *)
(* changes in place the vertex positions one Box holds, the positions every *)
(* other Box holds stay as they were.                                      *)
C5_NoSharedVertices ==
    [][\A b \in DOMAIN boxes :
          (/\ Len(calls') = Len(calls) + 1
           /\ calls'[Len(calls')].fn = "write"
           /\ calls'[Len(calls')].box = b)
          => \A c \in DOMAIN boxes \ {b} :
                arrays'[boxes'[c].vertices] = arrays[boxes[c].vertices]]_vars

(* C8: when the colourspace lookup fails, the children of the given parent *)
(* after the call are those before it: no node stays attached.             *)
C8_FailedLookupLeavesScene ==
    [][(/\ Len(calls') = Len(calls) + 1
        /\ calls'[Len(calls')].fn \in VisualFunctions
        /\ calls'[Len(calls')].args.colourspace \notin DOMAIN RGB_COLOURSPACES
        /\ calls'[Len(calls')].args.parent # None)
       => Children(nodes', calls'[Len(calls')].args.parent)
            = Children(nodes, calls'[Len(calls')].args.parent)]_vars

(* C9: a volume visual colours each Box by exactly one scheme: per-vertex  *)
(* colours if and only if no uniform colour (fill) or wireframe colour     *)
(* (wireframe) is given; with any given colour the Box gets that colour,   *)
(* no per-vertex colours, and the call does not fail.                      *)
C9_OneColourScheme ==
    \A i \in VolumeCalls : KnownColourspace(i) =>
        /\ Returned(i)
        /\ \A b \in BoxesOf(i) :
            LET given == IF boxes[b].wireframe THEN calls[i].args.colours.wireframe_colour
                         ELSE calls[i].args.colours.uniform_colour
            IN  /\ boxes[b].uniform_colour = given
                /\ boxes[b].vertex_colours.none <=> given.type # "None"

============================================================================
